---- MODULE Spec2Model ----
(***************************************************************************)
(* GAEPyPI: a private package index on an object store.                    *)
(*                                                                         *)
(* The model covers the path codec and the object-store adapter of         *)
(* gaepypi/storage.py (GCStorage) and the request handlers of main.py.     *)
(* Text is modelled character by character: a Python str is a sequence of  *)
(* one-character strings, so that split, join, strip and lower are         *)
(* computed the way the code computes them.  None and the empty string     *)
(* are both the empty sequence: the code only ever tests them for truth.   *)
(***************************************************************************)
EXTENDS Naturals, Sequences, FiniteSets

VARIABLES
    store,   \* the bucket: object name -> content (a partial function)
    req,     \* the request handled last
    resp,    \* the response to it
    dl,      \* the download handler in flight (package_download)
    codec    \* the last call on the path codec

vars == <<store, req, resp, dl, codec>>

(***************************************************************************)
(* Bounds of the model.                                                    *)
(***************************************************************************)
MaxLen == 2        \* longest package / version / file name given to the codec
MaxSegs == 4       \* most segments appended to a path given to split_path
MaxObjects == 2    \* most objects in the bucket
MaxChunks == 2     \* most chunks of an upstream body
ChunkLen == 2      \* bytes per read: stands for the 16 KiB of read_binary_data

(***************************************************************************)
(* Python's str operations, as the code uses them.                         *)
(***************************************************************************)
Alphabet == {"a", "/"}

RECURSIVE StrsOfLen(_)
StrsOfLen(n) ==
    IF n = 0 THEN {<<>>}
    ELSE {Append(s, c) : s \in StrsOfLen(n - 1), c \in Alphabet}

StrsUpTo(n) == UNION {StrsOfLen(i) : i \in 0..n}

RECURSIVE SplitAcc(_, _, _, _)
SplitAcc(s, d, i, cur) ==
    IF i > Len(s) THEN <<cur>>
    ELSE IF s[i] = d THEN <<cur>> \o SplitAcc(s, d, i + 1, <<>>)
    ELSE SplitAcc(s, d, i + 1, Append(cur, s[i]))

\* s.split(d): always at least one segment, empty segments kept
str_split(s, d) == SplitAcc(s, d, 1, <<>>)

RECURSIVE str_join(_, _)
\* d.join(segs)
str_join(d, segs) ==
    IF segs = <<>> THEN <<>>
    ELSE IF Len(segs) = 1 THEN segs[1]
    ELSE segs[1] \o <<d>> \o str_join(d, Tail(segs))

RECURSIVE str_lstrip(_, _)
\* s.lstrip(c)
str_lstrip(s, c) ==
    IF s # <<>> /\ s[1] = c THEN str_lstrip(Tail(s), c) ELSE s

startswith(s, p) == Len(p) <= Len(s) /\ SubSeq(s, 1, Len(p)) = p

\* os.path.join(a, b) on posix: an absolute b discards a
os_path_join(a, b) ==
    IF b # <<>> /\ b[1] = "/" THEN b
    ELSE IF a = <<>> \/ a[Len(a)] = "/" THEN a \o b
    ELSE a \o <<"/">> \o b

(***************************************************************************)
(* The path codec of GCStorage.                                            *)
(***************************************************************************)
Bucket == <<"k">>

PackagesDir == <<"p", "a", "c", "k", "a", "g", "e", "s">>

get_packages_path == <<"/">> \o Bucket \o <<"/">> \o PackagesDir

get_package_path_nofile(package, version, filename) ==
    LET path == os_path_join(get_packages_path, package)
    IN  IF version # <<>> THEN os_path_join(path, version) ELSE path

get_package_path(package, version, filename) ==
    LET path == os_path_join(get_packages_path, package)
    IN  IF version # <<>>
        THEN LET p2 == os_path_join(path, version)
             IN  IF filename # <<>> THEN os_path_join(p2, filename) ELSE p2
        ELSE path

Components == <<"package", "version", "filename">>

Min(a, b) == IF a < b THEN a ELSE b

\* dict(zip(components, segments)): as many keys as the shorter of the two
zip_dict(segments) ==
    [c \in {Components[i] : i \in 1..Min(3, Len(segments))} |->
        segments[CHOOSE i \in 1..3 : Components[i] = c]]

Ok(d) == [err |-> "none", dict |-> d]
Raised(e) == [err |-> e, dict |-> zip_dict(<<>>)]

\* the segments split_path keeps: segments[3:-1] or segments[3:]
kept_segments(segments) ==
    LET n == Len(segments)
        last == IF segments[n] = <<>> THEN n - 1 ELSE n
    IN  IF last >= 4 THEN SubSeq(segments, 4, last) ELSE <<>>

split_path_off_by_one(path) ==
    LET segments == str_split(path, "/")
    IN  IF Len(segments) < 2 THEN Raised("IndexError")
        ELSE IF segments[2] # Bucket THEN Raised("AssertionError")
        ELSE Ok(zip_dict(kept_segments(Tail(segments))))

split_path(path) ==
    LET segments == str_split(path, "/")
    IN  IF Len(segments) < 2 THEN Raised("IndexError")
        ELSE IF segments[2] # Bucket THEN Raised("AssertionError")
        ELSE Ok(zip_dict(kept_segments(segments)))

(***************************************************************************)
(* The bucket and the object-store adapter (GCStorage).                    *)
(* The bucket maps object names to contents.  A stream is its bytes and    *)
(* the position of the next read.                                          *)
(***************************************************************************)
Stream(data, pos) == [data |-> data, pos |-> pos]

NoStream == Stream(<<>>, 0)

\* the (bucket, path) pair of to_bucket_and_path
to_bucket_and_path(p) ==
    LET segments == str_split(str_lstrip(p, "/"), "/")
    IN  <<segments[1], str_join("/", Tail(segments))>>

\* the index of the first '/' of s, 0 when there is none
RECURSIVE FindSlash(_, _)
FindSlash(s, i) ==
    IF i > Len(s) THEN 0 ELSE IF s[i] = "/" THEN i ELSE FindSlash(s, i + 1)

\* storage_client.list_blobs(bucket, prefix=prefix, delimiter='/'): the objects
\* right below the prefix, and the common prefixes one delimiter further down
list_blobs(st, prefix) ==
    LET under == {n \in DOMAIN st : startswith(n, prefix)}
        rest(n) == SubSeq(n, Len(prefix) + 1, Len(n))
    IN  [blobs |-> {n \in under : FindSlash(rest(n), 1) = 0},
         prefixes |-> {prefix \o SubSeq(rest(n), 1, FindSlash(rest(n), 1)) :
                          n \in {m \in under : FindSlash(rest(m), 1) # 0}}]

_legacy_path(p) == <<"/">> \o Bucket \o <<"/">> \o p

ls_unpadded(st, path, dir_only) ==
    LET bucket_path == to_bucket_and_path(path)[2]
        listing == list_blobs(st, bucket_path)
    IN  IF dir_only THEN {_legacy_path(p) : p \in listing.prefixes}
        ELSE {_legacy_path(b) : b \in listing.blobs}

ls(st, path, dir_only) ==
    LET padded == IF path[Len(path)] = "/" THEN path ELSE path \o <<"/">>
        bucket_path == to_bucket_and_path(padded)[2]
        listing == list_blobs(st, bucket_path)
    IN  IF dir_only THEN {_legacy_path(p) : p \in listing.prefixes}
        ELSE {_legacy_path(b) : b \in listing.blobs}

read_no_seek(st, path) ==
    LET bucket_path == to_bucket_and_path(path)[2]
    IN  IF bucket_path \in DOMAIN st
        THEN [err |-> "none", file |-> Stream(st[bucket_path], Len(st[bucket_path]))]
        ELSE [err |-> "NotFound", file |-> NoStream]

\* blob.download_to_file raises NotFound for a missing object
read(st, path) ==
    LET bucket_path == to_bucket_and_path(path)[2]
    IN  IF bucket_path \in DOMAIN st
        THEN [err |-> "none", file |-> Stream(st[bucket_path], 0)]
        ELSE [err |-> "NotFound", file |-> NoStream]

\* what upload_from_file takes: the stream from its position to its end
Remaining(content) == SubSeq(content.data, content.pos + 1, Len(content.data))

write_keeps_bucket(st, path, content) ==
    LET bucket_path == str_lstrip(path, "/")
    IN  [n \in DOMAIN st \cup {bucket_path} |->
            IF n = bucket_path THEN Remaining(content) ELSE st[n]]

write(st, path, content) ==
    LET bucket_path == to_bucket_and_path(path)[2]
    IN  [n \in DOMAIN st \cup {bucket_path} |->
            IF n = bucket_path THEN Remaining(content) ELSE st[n]]

(***************************************************************************)
(* Package and PackageIndex (gaepypi/package.py), as the specification     *)
(* describes them.                                                         *)
(***************************************************************************)
\* Package(storage, name, version).exists(): the version's prefix has a file
Package_exists(st, name, version) ==
    ls(st, get_package_path(name, version, <<>>), FALSE) # {}

\* Package.get_file(filename): storage.read of the file's path
Package_get_file(st, name, version, filename) ==
    read(st, get_package_path(name, version, filename))

\* Package.put_file(filename, content): storage.write to the file's path
Package_put_file(st, name, version, filename, content) ==
    write(st, get_package_path(name, version, filename), content)

\* the version directories of a named index
PackageIndex_listing(st, package) ==
    ls(st, get_package_path(package, <<>>, <<>>), TRUE)

PackageIndex_exists(st, package) == PackageIndex_listing(st, package) # {}

PackageIndex_empty(st, package) == PackageIndex_listing(st, package) = {}

\* PackageIndex.get_all(storage): the package names of the unfiltered index
PackageIndex_get_all(st) ==
    {split_path(p).dict["package"] : p \in ls(st, get_packages_path, TRUE)}

\* Storage.empty()
empty(st) == Cardinality(PackageIndex_get_all(st)) = 0

\* index.to_html(full_index): the listing the page is rendered from
PackageIndex_to_html(st, package, full_index) ==
    [kind |-> "index", package |-> package, full_index |-> full_index,
     listing |-> PackageIndex_listing(st, package)]

(***************************************************************************)
(* The fallback proxy of main.py.                                          *)
(***************************************************************************)
UpperCase == <<"A", "B", "C", "D", "E", "F", "G", "H", "I", "J", "K", "L", "M", "N", "O", "P", "Q", "R", "S", "T", "U", "V", "W", "X", "Y", "Z">>

LowerCase == <<"a", "b", "c", "d", "e", "f", "g", "h", "i", "j", "k", "l", "m", "n", "o", "p", "q", "r", "s", "t", "u", "v", "w", "x", "y", "z">>

lower_char(c) ==
    IF \E i \in 1..Len(UpperCase) : UpperCase[i] = c
    THEN LowerCase[CHOOSE i \in 1..Len(UpperCase) : UpperCase[i] = c]
    ELSE c

\* k.lower()
str_lower(k) == [i \in 1..Len(k) |-> lower_char(k[i])]

h_authorization == <<"a", "u", "t", "h", "o", "r", "i", "z", "a", "t", "i", "o", "n">>

h_auth_domain == <<"x", "-", "a", "p", "p", "e", "n", "g", "i", "n", "e", "-", "a", "u", "t", "h", "-", "d", "o", "m", "a", "i", "n">>

h_user_is_admin == <<"x", "-", "a", "p", "p", "e", "n", "g", "i", "n", "e", "-", "u", "s", "e", "r", "-", "i", "s", "-", "a", "d", "m", "i", "n">>

h_host == <<"h", "o", "s", "t">>

\* the skip list proxy_to_pypi_org passes to cleanup_headers
SkipList == {h_authorization, h_auth_domain, h_user_is_admin, h_host}

cleanup_headers_case_sensitive(headers, skip_list) ==
    [k \in {h \in DOMAIN headers : h \notin skip_list} |-> headers[k]]

\* headers: header name -> value
cleanup_headers(headers, skip_list) ==
    [k \in {h \in DOMAIN headers : str_lower(h) \notin skip_list} |-> headers[k]]

\* The upstream response up: status, headers, body, and sizes, the number of
\* bytes each resp.raw.read(16 * 1024) returns in turn (1 to ChunkLen: a read
\* may come back short); the read after the last one returns the empty chunk.
RECURSIVE ReadLoop(_, _)
ReadLoop(body, sizes) ==
    IF sizes = <<>> THEN <<>>
    ELSE SubSeq(body, 1, Head(sizes))
            \o ReadLoop(SubSeq(body, Head(sizes) + 1, Len(body)), Tail(sizes))

RECURSIVE ReadLoopUntilShort(_, _)
ReadLoopUntilShort(body, sizes) ==
    IF sizes = <<>> \/ Head(sizes) < ChunkLen THEN <<>>
    ELSE SubSeq(body, 1, Head(sizes))
            \o ReadLoopUntilShort(SubSeq(body, Head(sizes) + 1, Len(body)), Tail(sizes))

read_binary_data_stops_early(up) == ReadLoopUntilShort(up.body, up.sizes)

read_binary_data(up) == ReadLoop(up.body, up.sizes)

\* the response of a handler; sent: the requests it issued upstream, in order
Response(status, headers, body, sent) ==
    [status |-> status, headers |-> headers, body |-> body, sent |-> sent]

LocalHeaders == "text/html; charset=utf-8"

proxy_to_pypi_org(package, headers, up) ==
    Response(up.status, up.headers, read_binary_data(up),
             <<[url |-> package, headers |-> cleanup_headers(headers, SkipList)]>>)

(***************************************************************************)
(* The request handlers of main.py.  up is the response the upstream       *)
(* index gives if it is asked.                                             *)
(***************************************************************************)
packages_get_package_always_proxies(st, package, headers, up) ==
    proxy_to_pypi_org(package, headers, up)

packages_get_package(st, package, headers, up) ==
    IF PackageIndex_exists(st, package)
    THEN Response(200, LocalHeaders, PackageIndex_to_html(st, package, FALSE), <<>>)
    ELSE proxy_to_pypi_org(package, headers, up)

pypi_package_get(st, package, headers, up) ==
    IF ~PackageIndex_empty(st, package) /\ PackageIndex_exists(st, package)
    THEN Response(200, LocalHeaders, PackageIndex_to_html(st, package, TRUE), <<>>)
    ELSE proxy_to_pypi_org(package, headers, up)

\* r.files: field name -> [filename, stream].  request.files['content'] on a
\* request without that field raises BadRequestKeyError (400), which the
\* except GAEPyPIError clause does not catch; put_file raises no GAEPyPIError,
\* so abort(403) is never taken.
root_post(st, r) ==
    IF r.name # <<>> /\ r.version # <<>> /\ Cardinality(DOMAIN r.files) # 0
       /\ r.action = "file_upload"
    THEN IF "content" \notin DOMAIN r.files
         THEN [store |-> st, resp |-> Response(400, LocalHeaders, "BadRequestKeyError", <<>>)]
         ELSE LET upload == r.files["content"]
              IN  [store |-> Package_put_file(st, r.name, r.version, upload.filename,
                                              upload.stream),
                   resp |-> Response(200, LocalHeaders, "", <<>>)]
    ELSE [store |-> st, resp |-> Response(200, LocalHeaders, "", <<>>)]

package_download_uncaught(st, name, version, filename) ==
    LET gcs_file == Package_get_file(st, name, version, filename)
    IN  IF gcs_file.err = "none"
        THEN Response(200, "application/octet-stream", gcs_file.file, <<>>)
        ELSE Response(500, LocalHeaders, gcs_file.err, <<>>)

package_download(st, name, version, filename) ==
    LET gcs_file == Package_get_file(st, name, version, filename)
    IN  IF gcs_file.err = "none"
        THEN Response(200, "application/octet-stream", gcs_file.file, <<>>)
        ELSE Response(404, LocalHeaders, "", <<>>)

(***************************************************************************)
(* Initial state: an empty bucket, nothing handled yet.                    *)
(***************************************************************************)
EmptyStore == [n \in {} |-> <<>>]

Idle == [pc |-> "idle"]

Init ==
    /\ store = EmptyStore
    /\ req = [handler |-> "none"]
    /\ resp = [handler |-> "none"]
    /\ dl = Idle
    /\ codec = [op |-> "none"]

(***************************************************************************)
(* Actions: one per handler.  package_download is two steps, the request   *)
(* arriving and get_file reading the object.                               *)
(***************************************************************************)
RootPost(r) ==
    /\ Cardinality(DOMAIN root_post(store, r).store) <= MaxObjects
    /\ store' = root_post(store, r).store
    /\ req' = r
    /\ resp' = root_post(store, r).resp
    /\ UNCHANGED <<dl, codec>>

PackagesGetPackage(package, headers, up) ==
    /\ req' = [handler |-> "packages_get_package", package |-> package,
               headers |-> headers, up |-> up]
    /\ resp' = packages_get_package(store, package, headers, up)
    /\ UNCHANGED <<store, dl, codec>>

PypiPackageGet(package, headers, up) ==
    /\ req' = [handler |-> "pypi_package_get", package |-> package,
               headers |-> headers, up |-> up]
    /\ resp' = pypi_package_get(store, package, headers, up)
    /\ UNCHANGED <<store, dl, codec>>

DownloadKey(d) == to_bucket_and_path(get_package_path(d.name, d.version, d.filename))[2]

\* the request arrives, the last exchange is forgotten; existed: whether the
\* object was there at that moment
DownloadStart(name, version, filename) ==
    /\ dl.pc = "idle"
    /\ dl' = [pc |-> "get_file", name |-> name, version |-> version,
              filename |-> filename,
              existed |-> DownloadKey([name |-> name, version |-> version,
                                       filename |-> filename]) \in DOMAIN store]
    /\ req' = [handler |-> "none"]
    /\ resp' = [handler |-> "none"]
    /\ UNCHANGED <<store, codec>>

DownloadRead ==
    /\ dl.pc = "get_file"
    /\ req' = [handler |-> "package_download", name |-> dl.name, version |-> dl.version,
               filename |-> dl.filename, existed |-> dl.existed]
    /\ resp' = package_download(store, dl.name, dl.version, dl.filename)
    /\ dl' = Idle
    /\ UNCHANGED <<store, codec>>

\* another actor removes an object from the bucket
ExternalDelete(n) ==
    /\ n \in DOMAIN store
    /\ store' = [m \in DOMAIN store \ {n} |-> store[m]]
    /\ UNCHANGED <<req, resp, dl, codec>>

(***************************************************************************)
(* The inputs of the handlers.                                             *)
(***************************************************************************)
B1 == <<7>>

B2 == <<8, 9>>

Upload(filename, data) == [filename |-> filename, stream |-> Stream(data, 0)]

NoFiles == [k \in {} |-> Upload(<<>>, <<>>)]

FileSets ==
    {NoFiles,
     [k \in {"content"} |-> Upload(<<"f">>, B1)],
     [k \in {"content"} |-> Upload(<<"f">>, B2)],
     [k \in {"content"} |-> Upload(<<>>, B1)],
     [k \in {"file"} |-> Upload(<<"f">>, B1)]}

UploadNames == {<<"a">>, <<"a", "b">>, <<"a", "/", "/", "b">>, <<>>}

UploadVersions == {<<"1">>, <<"2">>, <<>>}

UploadReq(name, version, action, files) ==
    [handler |-> "root_post", name |-> name, version |-> version,
     action |-> action, files |-> files]

\* uploads with every field, and one upload with each field missing or wrong
UploadRequests ==
    {UploadReq(n, <<"1">>, "file_upload", fs) :
        n \in UploadNames \ {<<>>}, fs \in FileSets \ {NoFiles}}
    \cup {UploadReq(n, v, a, [k \in {"content"} |-> Upload(<<"f">>, B1)]) :
            n \in {<<"a">>, <<>>}, v \in {<<"1">>, <<>>}, a \in {"file_upload", "submit"}}
    \cup {UploadReq(<<"a">>, <<"1">>, "file_upload", NoFiles),
          UploadReq(<<"a">>, <<"2">>, "file_upload",
                    [k \in {"content"} |-> Upload(<<"f">>, B1)])}

\* header names as the request carries them
HeaderNames ==
    {<<"A", "u", "t", "h", "o", "r", "i", "z", "a", "t", "i", "o", "n">>,
     <<"a", "u", "t", "h", "o", "r", "i", "z", "a", "t", "i", "o", "n">>,
     <<"H", "o", "s", "t">>,
     <<"X", "-", "A", "p", "p", "e", "n", "g", "i", "n", "e", "-", "A", "u", "t", "h", "-", "D", "o", "m", "a", "i", "n">>,
     <<"X", "-", "A", "p", "p", "e", "n", "g", "i", "n", "e", "-", "U", "s", "e", "r", "-", "I", "s", "-", "A", "d", "m", "i", "n">>,
     <<"X", "-", "A", "p", "p", "e", "n", "g", "i", "n", "e", "-", "U", "s", "e", "r", "-", "E", "m", "a", "i", "l">>,
     <<"A", "c", "c", "e", "p", "t">>,
     <<"C", "o", "o", "k", "i", "e">>}

HeaderValue(k) == IF str_lower(k) = h_authorization THEN "Basic c2VjcmV0" ELSE "value"

AllHeaders == {[k \in S |-> HeaderValue(k)] : S \in SUBSET HeaderNames}

SomeHeaders == [k \in {<<"A", "u", "t", "h", "o", "r", "i", "z", "a", "t", "i", "o", "n">>, <<"A", "c", "c", "e", "p", "t">>} |-> HeaderValue(k)]

Bytes == {0, 1}

RECURSIVE SeqsOfLen(_, _)
SeqsOfLen(S, n) ==
    IF n = 0 THEN {<<>>} ELSE {Append(q, x) : q \in SeqsOfLen(S, n - 1), x \in S}

\* what one read of resp.raw can return before the end of the body
Chunks == UNION {SeqsOfLen(Bytes, n) : n \in 1..ChunkLen}

Raws == UNION {SeqsOfLen(Chunks, n) : n \in 0..MaxChunks}

RECURSIVE Flatten(_)
Flatten(raw) == IF raw = <<>> THEN <<>> ELSE Head(raw) \o Flatten(Tail(raw))

Upstream(status, raw) ==
    [status |-> status,
     headers |-> IF status = 200 THEN "text/html" ELSE "text/plain",
     body |-> Flatten(raw),
     sizes |-> [i \in 1..Len(raw) |-> Len(raw[i])]]

AllUpstreams == {Upstream(status, raw) : status \in {200, 404, 503}, raw \in Raws}

SomeUpstreams == {Upstream(200, <<<<0, 1>>, <<1>>>>), Upstream(404, <<>>)}

(***************************************************************************)
(* The server, one request at a time.                                      *)
(***************************************************************************)
Next ==
    \/ dl.pc = "idle" /\ \E r \in UploadRequests : RootPost(r)
    \/ dl.pc = "idle" /\ \E package \in {<<"a">>, <<"a", "b">>}, up \in SomeUpstreams :
          PackagesGetPackage(package, SomeHeaders, up)
    \/ dl.pc = "idle" /\ \E package \in {<<"a">>, <<"a", "/", "/", "b">>}, up \in SomeUpstreams :
          PypiPackageGet(package, SomeHeaders, up)
    \/ \E name \in {<<"a">>, <<"a", "b">>}, filename \in {<<"f">>, <<"g">>} :
          DownloadStart(name, <<"1">>, filename)
    \/ DownloadRead

Spec == Init /\ [][Next]_vars

(***************************************************************************)
(* The server with its handlers interleaved, and objects removed from the  *)
(* bucket behind its back.                                                 *)
(***************************************************************************)
RaceUploads ==
    {r \in UploadRequests :
        /\ r.name \in {<<"a">>, <<"a", "b">>} /\ r.version # <<>>
        /\ r.action = "file_upload"
        /\ "content" \in DOMAIN r.files /\ r.files["content"].filename # <<>>}

NextRace ==
    \/ \E r \in RaceUploads : RootPost(r)
    \/ \E name \in {<<"a">>, <<"a", "b">>}, filename \in {<<"f">>, <<"g">>} :
          DownloadStart(name, <<"1">>, filename)
    \/ DownloadRead
    \/ \E n \in DOMAIN store : ExternalDelete(n)

SpecRace == Init /\ [][NextRace]_vars

(***************************************************************************)
(* The proxy on its own: the bucket is empty, the request and the upstream *)
(* response are drawn from bounded sets.                                   *)
(***************************************************************************)
Pending(route, package, headers, up) ==
    [handler |-> "pending", route |-> route, package |-> package,
     headers |-> headers, up |-> up]

InitProxy ==
    /\ store = EmptyStore
    /\ req \in {Pending("packages", <<"a">>, SomeHeaders, up) : up \in AllUpstreams}
           \cup {Pending(route, <<"a">>, headers, Upstream(200, <<<<0, 1>>>>)) :
                    route \in {"packages", "pypi"}, headers \in AllHeaders}
    /\ resp = [handler |-> "none"]
    /\ dl = Idle
    /\ codec = [op |-> "none"]

NextProxy ==
    \/ req.handler = "pending" /\ req.route = "packages"
          /\ PackagesGetPackage(req.package, req.headers, req.up)
    \/ req.handler = "pending" /\ req.route = "pypi"
          /\ PypiPackageGet(req.package, req.headers, req.up)

SpecProxy == InitProxy /\ [][NextProxy]_vars

(***************************************************************************)
(* The codec on its own: inputs drawn from bounded sets.                   *)
(***************************************************************************)
NameInputs == StrsUpTo(MaxLen)

Roots == {get_packages_path, <<"/", "a", "/">> \o PackagesDir, <<"/">> \o Bucket, <<>>}

RECURSIVE Suffixes(_)
\* n segments, each "/a" or "/k"
Suffixes(n) ==
    IF n = 0 THEN {<<>>}
    ELSE {s \o <<"/", c>> : s \in Suffixes(n - 1), c \in {"a", "k"}}

SplitInputs ==
    {r \o s \o t : r \in Roots, s \in UNION {Suffixes(n) : n \in 0..MaxSegs},
                   t \in {<<>>, <<"/">>}}

CodecCalls ==
    {[op |-> "round_trip", package |-> p, version |-> v, filename |-> f, done |-> FALSE] :
        p \in NameInputs, v \in NameInputs, f \in NameInputs}
    \cup {[op |-> "split_path", path |-> path, done |-> FALSE] : path \in SplitInputs}

InitCodec ==
    /\ store = EmptyStore
    /\ req = [handler |-> "none"]
    /\ resp = [handler |-> "none"]
    /\ dl = Idle
    /\ codec \in CodecCalls

\* split_path(get_package_path(package, version, filename))
RoundTrip ==
    /\ codec.op = "round_trip" /\ ~codec.done
    /\ LET path == get_package_path(codec.package, codec.version, codec.filename)
       IN  codec' = [op |-> "round_trip", package |-> codec.package,
                     version |-> codec.version, filename |-> codec.filename,
                     done |-> TRUE, path |-> path, result |-> split_path(path)]
    /\ UNCHANGED <<store, req, resp, dl>>

SplitPath ==
    /\ codec.op = "split_path" /\ ~codec.done
    /\ codec' = [op |-> "split_path", path |-> codec.path, done |-> TRUE,
                 result |-> split_path(codec.path)]
    /\ UNCHANGED <<store, req, resp, dl>>

NextCodec == RoundTrip \/ SplitPath

SpecCodec == InitCodec /\ [][NextCodec]_vars

(***************************************************************************)
(* Claims about the codec.                                                 *)
(***************************************************************************)
\* a name the codec is specified for: non-empty, no '/'
ValidName(s) == s # <<>> /\ \A i \in 1..Len(s) : s[i] # "/"

DictOf(keys, r) == [c \in keys |-> r[c]]

\* C1: for non-empty, '/'-free package, version and filename,
\* split_path(get_package_path(...)) returns exactly {package, version, filename};
\* with filename omitted exactly {package, version}; with version and filename
\* omitted exactly {package}.
C1_RoundTrip ==
    (codec.op = "round_trip" /\ codec.done /\ ValidName(codec.package)) =>
        /\ (ValidName(codec.version) /\ ValidName(codec.filename)) =>
              codec.result = Ok(DictOf({"package", "version", "filename"}, codec))
        /\ (ValidName(codec.version) /\ codec.filename = <<>>) =>
              codec.result = Ok(DictOf({"package", "version"}, codec))
        /\ (codec.version = <<>> /\ codec.filename = <<>>) =>
              codec.result = Ok(DictOf({"package"}, codec))

C1_Witness ==
    /\ codec.op = "round_trip" /\ codec.done
    /\ ValidName(codec.package) /\ ValidName(codec.version) /\ ValidName(codec.filename)
    /\ Len(codec.package) = 2
    /\ codec.result.err = "none"
    /\ codec.result.dict["filename"] = codec.filename

\* what the claim counts: the segments after the store identity and the
\* 'packages' root, an optional trailing empty segment dropped
SegmentCount(path) == Len(kept_segments(str_split(path, "/")))

IdentityOk(path) ==
    LET segments == str_split(path, "/")
    IN  Len(segments) >= 2 /\ segments[2] = Bucket

WellFormed(r) ==
    /\ r.name # <<>> /\ r.version # <<>>
    /\ "content" \in DOMAIN r.files
    /\ r.action = "file_upload"

\* the last request was a well-formed upload and it completed
Uploaded == req.handler = "root_post" /\ WellFormed(req) /\ resp.status = 200

Visible(st, name, version) ==
    /\ Package_exists(st, name, version)
    /\ name \in PackageIndex_get_all(st)
    /\ ~empty(st)

\* C3 (as stated): after any well-formed upload for (name, version, filename),
\* Package(name, version).exists() is true, name is in the unfiltered index's
\* package names and the storage is not empty().
C3_Original == Uploaded => Visible(store, req.name, req.version)

\* C3 (amended): the same, for a name, a version and a filename that are
\* non-empty and contain no '/'; and what an upload made visible stays visible
\* under every later upload.
C3_UploadVisible ==
    /\ [](( /\ Uploaded
            /\ ValidName(req.name) /\ ValidName(req.version)
            /\ ValidName(req.files["content"].filename))
          => Visible(store, req.name, req.version))
    /\ [][\A n \in UploadNames, v \in UploadVersions :
            (ValidName(n) /\ ValidName(v) /\ Visible(store, n, v))
                => Visible(store', n, v)]_vars

C3_Witness ==
    /\ Uploaded
    /\ req.name = <<"a", "b">> /\ ValidName(req.files["content"].filename)
    /\ Visible(store, <<"a", "b">>, req.version)
    /\ Visible(store, <<"a">>, <<"1">>)

Key(p) == to_bucket_and_path(p)[2]

StorePaths ==
    {get_package_path(n, <<"1">>, f) :
        n \in {<<"a">>, <<"a", "b">>, <<"a", "/", "/", "b">>}, f \in {<<"f">>, <<>>}}
    \cup {<<"/", "x", "/">> \o PackagesDir \o <<"/", "a", "/", "1", "/", "f">>}

\* C4: write(p, b) then read(p) gives a stream at offset zero holding exactly
\* b; the write replaces what p held and leaves every other object as it was.
C4_WriteRead ==
    /\ \A p \in StorePaths, b \in {B1, B2} :
          LET after == write(store, p, Stream(b, 0))
          IN  /\ read(after, p) = [err |-> "none", file |-> Stream(b, 0)]
              /\ DOMAIN after = DOMAIN store \cup {Key(p)}
              /\ \A n \in DOMAIN store \ {Key(p)} : after[n] = store[n]
    /\ Uploaded =>
          LET upload == req.files["content"]
          IN  read(store, get_package_path(req.name, req.version, upload.filename))
                 = [err |-> "none", file |-> Stream(upload.stream.data, 0)]

C4_Witness ==
    /\ req.handler = "package_download" /\ req.existed
    /\ resp.status = 200 /\ resp.body = Stream(B2, 0)
    /\ Cardinality(DOMAIN store) = 2

LsPrefixes ==
    LET bare == {get_packages_path, <<"/">> \o Bucket}
                \cup {get_package_path(n, v, <<>>) :
                         n \in {<<"a">>, <<"a", "b">>, <<"a", "/", "/", "b">>},
                         v \in {<<>>, <<"1">>}}
    IN  bare \cup {p \o <<"/">> : p \in bare}

Padded(prefix) == IF prefix[Len(prefix)] = "/" THEN prefix ELSE prefix \o <<"/">>

\* r is the slash-terminated prefix, one segment without '/', and a final '/'
OneLevelChild(prefix, r, nonEmpty) ==
    /\ startswith(r, Padded(prefix))
    /\ LET child == SubSeq(r, Len(Padded(prefix)) + 1, Len(r))
       IN  /\ child # <<>>
           /\ FindSlash(child, 1) = Len(child)
           /\ nonEmpty => Len(child) > 1

NoEmptySegments(st) ==
    \A n \in DOMAIN st : \A i \in 1..Len(str_split(n, "/")) : str_split(n, "/")[i] # <<>>

ServedLocally ==
    /\ req.handler \in {"packages_get_package", "pypi_package_get"}
    /\ resp.sent = <<>>

\* C5 (as stated): every path ls(prefix, dir_only=True) returns is the prefix,
\* '/', exactly one non-empty segment and the trailing '/'.
C5_Original ==
    \A prefix \in LsPrefixes : \A r \in ls(store, prefix, TRUE) :
        OneLevelChild(prefix, r, TRUE)

\* C5 (amended): every path ls(prefix, dir_only=True) returns, for a prefix in
\* the store's own bucket, is the slash-terminated prefix, exactly one segment
\* and the trailing '/': never a deeper descendant, never a sibling whose name
\* starts with the prefix's last segment.  The segment is non-empty when no
\* object name of the bucket has an empty segment.
C5_OneLevel ==
    /\ \A prefix \in LsPrefixes : \A r \in ls(store, prefix, TRUE) :
          OneLevelChild(prefix, r, NoEmptySegments(store))
    /\ ServedLocally =>
          \A r \in resp.body.listing :
              OneLevelChild(get_package_path(req.package, <<>>, <<>>), r,
                            NoEmptySegments(store))

C5_Witness ==
    /\ ServedLocally /\ req.package = <<"a">>
    /\ resp.body.listing = {get_package_path(<<"a">>, <<"1">>, <<>>) \o <<"/">>}
    /\ ls(store, get_package_path(<<"a", "b">>, <<>>, <<>>), TRUE) # {}

Malformed(r) ==
    \/ r.name = <<>> \/ r.version = <<>>
    \/ "content" \notin DOMAIN r.files
    \/ r.action # "file_upload"

\* C9: an upload request without a name, a version or the file field
\* 'content', or with another :action, is answered with the empty success
\* response and leaves the bucket as it was.
C9_MalformedIsNoOp ==
    [][(req'.handler = "root_post" /\ Malformed(req'))
          => (resp'.status = 200 /\ resp'.body = "" /\ store' = store)]_vars

(***************************************************************************)
(* Claims about the index pages and the proxy.                             *)
(***************************************************************************)
IndexGet == req.handler \in {"packages_get_package", "pypi_package_get"}

\* C6: the upstream index is asked if and only if the local index lookup
\* reports the package absent or empty; a package present locally is answered
\* with the local listing and nothing is sent upstream; a response is the
\* local page or the upstream body, never a mix.
C6_LocalWins ==
    IndexGet =>
        LET absent == \/ ~PackageIndex_exists(store, req.package)
                      \/ PackageIndex_empty(store, req.package)
        IN  /\ (resp.sent # <<>>) <=> absent
            /\ ~absent =>
                  /\ resp.sent = <<>>
                  /\ resp.status = 200
                  /\ resp.body = PackageIndex_to_html(store, req.package,
                                                      req.handler = "pypi_package_get")
            /\ absent =>
                  /\ Len(resp.sent) = 1
                  /\ resp.body = req.up.body

C6_Witness ==
    /\ ServedLocally
    /\ req.package = <<"a">>
    /\ resp.body.listing # {}
    /\ req.up.status = 200

\* C7: a request for a package whose PackageIndex does not exist is sent
\* upstream exactly once, and the response has the upstream's status and
\* headers and a body byte-identical to the upstream body, whatever the status
\* and however the body arrived in chunks.
C7_ProxyVerbatim ==
    (IndexGet /\ ~PackageIndex_exists(store, req.package)) =>
        /\ Len(resp.sent) = 1
        /\ resp.sent[1].url = req.package
        /\ resp.status = req.up.status
        /\ resp.headers = req.up.headers
        /\ resp.body = req.up.body

C7_Witness ==
    /\ IndexGet /\ ~PackageIndex_exists(store, req.package)
    /\ req.up.status = 503
    /\ Len(req.up.sizes) >= 2 /\ req.up.sizes[1] < ChunkLen
    /\ resp.body = req.up.body

\* the header names the claim lists, in lower case
ExcludedNames == {h_authorization, h_host, h_auth_domain, h_user_is_admin}

\* C8: the headers sent upstream hold no header whose name is, in any case,
\* authorization, host, x-appengine-auth-domain or x-appengine-user-is-admin,
\* and hold every other inbound header unchanged, and nothing else.
C8_HeadersStripped ==
    (IndexGet /\ resp.sent # <<>>) =>
        LET fwd == resp.sent[1].headers
        IN  /\ \A k \in DOMAIN fwd : str_lower(k) \notin ExcludedNames
            /\ DOMAIN fwd \subseteq DOMAIN req.headers
            /\ \A k \in DOMAIN req.headers :
                  str_lower(k) \notin ExcludedNames =>
                      k \in DOMAIN fwd /\ fwd[k] = req.headers[k]

C8_Witness ==
    /\ IndexGet /\ resp.sent # <<>>
    /\ \E k \in DOMAIN req.headers : str_lower(k) = h_authorization /\ k # h_authorization
    /\ \E k \in DOMAIN req.headers : str_lower(k) = h_host
    /\ Cardinality(DOMAIN resp.sent[1].headers) = 2

(***************************************************************************)
(* Claims about downloads racing with removals.                            *)
(***************************************************************************)
\* C10: whatever happens between the arrival of a download request and its
\* read, the read decides: an object that is there is sent as it is at that
\* moment, an object that is not (removed meanwhile, or never there) gives
\* 404; no download ends any other way.
C10_RaceIs404 ==
    /\ [](req.handler = "package_download" => resp.status \in {200, 404})
    /\ [][(dl.pc = "get_file" /\ dl'.pc = "idle") =>
            IF DownloadKey(dl) \in DOMAIN store
            THEN resp'.status = 200 /\ resp'.body = Stream(store[DownloadKey(dl)], 0)
            ELSE resp'.status = 404]_vars

C10_Witness ==
    /\ req.handler = "package_download"
    /\ req.existed
    /\ resp.status = 404


====
